---- MODULE Spec2Model ----
\* Like/unlike counter subsystem of the product catalogue backend.
\*
\* The source tree holds two revisions of the like feature.  The "direct"
\* revision is src/src/modules/products/repositories/ProductRepository.ts
\* (plain get followed by update with field transforms) together with the
\* controller of src/src/modules/products/controllers/productController.ts
\* (responses spread the stored record).  The "transactional" revision is
\* src/unnamed/part_008 (runTransaction around read-check-write) together with
\* the controller of src/unnamed/part_009 (formatProductResponse).  The variable
\* `revision` selects which one is deployed; it never changes.
\*
\* Every await of a handler is a separate step, so requests interleave at
\* exactly the points where the Node.js event loop can switch between them.
EXTENDS Integers, Sequences, FiniteSets, TLC

\* ---------------------------------------------------------------- bounds
NumUsers == 2
NumSlots == 2
MaxCalls == 3
MaxLimit == 2
\* a page size far above what any listing holds
LargeLimit == 101

\* ------------------------------------------------------------- constants
\* runTransaction is called without options: Firestore's default number of
\* attempts applies.
MaxAttempts == 5
\* getLikedProducts: limit defaults to 20 when the query has none.
DefaultLimit == 20

Users == 1..NumUsers
NoUser == 0
Products == {"p1", "p2"}
Slots == 1..NumSlots
Revisions == {"direct", "transactional"}
\* absent query parameter
NoParam == 0
LimitParams == {NoParam} \cup (1..MaxLimit) \cup {LargeLimit}
CursorParams == {"none"} \cup Products

\* product.userId: the seller who created the product.
Owner(p) == IF p = "p1" THEN 1 ELSE 2

\* Firestore orders and cursors by document id when nothing else is asked.
DocIdOrder == <<"p1", "p2", "p3">>

\* log: what the requests of a scenario have asked for and been given so far,
\* in order.  Only the scenario specifications write it.
VARIABLES revision, store, recency, slots, response, issued, succeeded, started,
          log

vars == <<revision, store, recency, slots, response, issued, succeeded, started, log>>

\* ------------------------------------------------------------ documents
\* A product document, reduced to the like fields.  hasLikes / hasLikedBy say
\* whether the field is present in the record at all.
NoDoc == [exists |-> FALSE, hasLikes |-> FALSE, likes |-> 0,
          hasLikedBy |-> FALSE, likedBy |-> <<>>]
\* createProduct stores likes: data.likes || 0 and no likedBy.
FreshDoc == [exists |-> TRUE, hasLikes |-> TRUE, likes |-> 0,
             hasLikedBy |-> FALSE, likedBy |-> <<>>]
\* a record written before the feature existed: neither field.
LegacyDoc == [exists |-> TRUE, hasLikes |-> FALSE, likes |-> 0,
              hasLikedBy |-> FALSE, likedBy |-> <<>>]

Range(f) == {f[i] : i \in DOMAIN f}

Max(a, b) == IF a >= b THEN a ELSE b

Min(a, b) == IF a <= b THEN a ELSE b

\* data.likedBy || []  followed by  .includes(userId)
Includes(doc, u) == doc.hasLikedBy /\ u \in Range(doc.likedBy)

\* typeof data.likes === 'number' ? data.likes : 0
CurrentLikes(doc) == IF doc.hasLikes THEN doc.likes ELSE 0

\* product.likes || 0 and product.likes ?? 0 agree on numbers and absence.
LikeCount(doc) == IF doc.hasLikes THEN doc.likes ELSE 0

\* number of distinct user ids in likedBy
Members(doc) == IF doc.hasLikedBy THEN Range(doc.likedBy) ELSE {}

\* a plain push onto the array
ArrayPush(doc, u) == [doc EXCEPT !.hasLikedBy = TRUE, !.likedBy = Append(doc.likedBy, u)]

\* a union that needs the array to be there
ArrayUnionIfPresent(doc, u) ==
    IF doc.hasLikedBy THEN [doc EXCEPT !.likedBy = IF u \in Range(doc.likedBy) THEN doc.likedBy
                                                    ELSE Append(doc.likedBy, u)]
    ELSE doc

\* FieldValue.arrayUnion(u): appends u unless already present; creates the field.
ArrayUnion(doc, u) ==
    [doc EXCEPT !.hasLikedBy = TRUE,
                !.likedBy = IF u \in Range(doc.likedBy) THEN doc.likedBy
                            ELSE Append(doc.likedBy, u)]

\* an unlike that empties the array
ArrayClear(doc, u) == [doc EXCEPT !.hasLikedBy = TRUE, !.likedBy = <<>>]

\* FieldValue.arrayRemove(u): removes every occurrence of u; creates the field.
ArrayRemove(doc, u) ==
    [doc EXCEPT !.hasLikedBy = TRUE,
                !.likedBy = SelectSeq(doc.likedBy, LAMBDA x : x # u)]

\* a transform that leaves the counter where it is
IncrementDropped(doc, d) == [doc EXCEPT !.hasLikes = TRUE, !.likes = CurrentLikes(doc)]

\* FieldValue.increment(d): adds d; an absent field counts as 0.
Increment(doc, d) ==
    [doc EXCEPT !.hasLikes = TRUE, !.likes = CurrentLikes(doc) + d]

SetLikes(doc, n) == [doc EXCEPT !.hasLikes = TRUE, !.likes = n]

\* ------------------------------------------------- repository writes
\* direct revision, addLike: the update is unconditional.
DirectAddLikeUpdate(doc, u) == Increment(ArrayUnion(doc, u), 1)

\* removeLike with the decrement outside the membership check
RemoveLikeAlwaysDecrements(doc, u, wasMember) == Increment(ArrayRemove(doc, u), -1)

\* direct revision, removeLike: wasMember is what the earlier get saw.
DirectRemoveLikeUpdate(doc, u, wasMember) ==
    IF wasMember THEN Increment(ArrayRemove(doc, u), -1)
    ELSE ArrayRemove(doc, u)

\* transactional revision, addLike: writes only when the read saw no membership.
\* The result is the document after the transaction's writes and wrote says
\* whether the transaction queued an update at all.
TxAddLikeWrites(wasMember) == ~wasMember

TxAddLikeUpdate(doc, u, wasMember) ==
    IF ~wasMember THEN Increment(ArrayUnion(doc, u), 1) ELSE doc

\* removeLike that takes the user out and leaves the counter
TxRemoveLikeKeepsCounter(doc, u, wasMember, readLikes) == ArrayRemove(doc, u)

\* transactional revision, removeLike: both branches queue an update.
TxRemoveLikeUpdate(doc, u, wasMember, readLikes) ==
    IF wasMember THEN SetLikes(ArrayRemove(doc, u), Max(0, readLikes - 1))
    ELSE ArrayRemove(doc, u)

\* ---------------------------------------------------------- request slots
\* A slot is one in-flight HTTP request: the position of its handler (pc), its
\* arguments and what its reads returned.
\* the like-related part of the body of a product update: a likes number or
\* no likes key at all (UpdateProductData.likes is optional)
NoLikesBody == [hasLikes |-> FALSE, likes |-> 0]

IdleSlot == [pc |-> "idle", op |-> "none", pid |-> "p1", user |-> NoUser,
             limit |-> NoParam, cursor |-> "none",
             body |-> NoLikesBody, delta |-> 0,
             wasMember |-> FALSE, readLikes |-> 0,
             dirty |-> FALSE, attempts |-> 0,
             hasCursor |-> FALSE, older |-> {}]

NewCall(o, p, u, at) == [IdleSlot EXCEPT !.pc = at, !.op = o, !.pid = p, !.user = u]

\* The response sent by the latest step, if it sent one, with the request it
\* answers: status, the two
\* derived fields, whether the body has a likedBy key anywhere, and the ids of
\* the products of a listing.
NoResp == [status |-> 0, likeCount |-> 0, isLikedByUser |-> FALSE,
           likedByKey |-> FALSE, page |-> <<>>]

NoResponse == [op |-> "none", pid |-> "p1", user |-> NoUser,
               limit |-> NoParam, cursor |-> "none", body |-> NoResp]

ErrorResp(code) == [NoResp EXCEPT !.status = code]

\* { likeCount: product.likes || 0, isLikedByUser: <constant> }
LikeResp(doc, liked) == [NoResp EXCEPT !.status = 200,
                                       !.likeCount = LikeCount(doc),
                                       !.isLikedByUser = liked]

\* a formatter that tests likedBy for being non-empty instead of for the viewer
FormatForAnyViewer(doc, u) ==
    [NoResp EXCEPT !.status = 200,
                   !.likeCount = LikeCount(doc),
                   !.isLikedByUser = doc.hasLikedBy /\ doc.likedBy # <<>>,
                   !.likedByKey = FALSE]

\* a formatter that spreads the whole record and reports the viewer as a
\* liker whenever the record has likers
FormatKeepingLikedBy(doc, u) ==
    [NoResp EXCEPT !.status = 200,
                   !.likeCount = LikeCount(doc),
                   !.isLikedByUser = doc.hasLikedBy /\ doc.likedBy # <<>>,
                   !.likedByKey = doc.hasLikedBy]

\* transactional revision: formatProductResponse(product, userId) drops likedBy
\* and computes the two derived fields.
formatProductResponse(doc, u) ==
    [NoResp EXCEPT !.status = 200,
                   !.likeCount = LikeCount(doc),
                   !.isLikedByUser = IF u # NoUser THEN Includes(doc, u) ELSE FALSE,
                   !.likedByKey = FALSE]

\* direct revision: { ...product, likeCount, isLikedByUser } keeps every stored
\* field, likedBy included when the record has one.
SpreadProductResponse(doc, u) ==
    [NoResp EXCEPT !.status = 200,
                   !.likeCount = LikeCount(doc),
                   !.isLikedByUser = IF u # NoUser /\ doc.hasLikedBy
                                     THEN u \in Range(doc.likedBy) ELSE FALSE,
                   !.likedByKey = doc.hasLikedBy]

\* ResponseHandler.success(res, product): the stored record as it is (its
\* counter is reported in the likeCount slot of the model's response).
RawProductResponse(doc) ==
    [NoResp EXCEPT !.status = 200,
                   !.likeCount = LikeCount(doc),
                   !.likedByKey = doc.hasLikedBy]

Calls == {"like", "unlike"} \X Products \X Users

EmptyBag == [c \in Calls |-> 0]

BagAdd(b, c) == [b EXCEPT ![c] = @ + 1]

\* a write that leaves updatedAt alone
TouchNothing(rec, p) == rec

\* updatedAt: FieldValue.serverTimestamp() makes the written document the most
\* recently updated one.  recency lists the existing documents, newest first.
Touch(rec, p) == <<p>> \o SelectSeq(rec, LAMBDA q : q # p)

\* conflict detection on the collection instead of on the document
WriteSeenByAll(sl, p, self) ==
    [t \in DOMAIN sl |->
        IF t = self THEN sl[t]
        ELSE [sl[t] EXCEPT
                !.dirty = IF sl[t].pc = "txCommit" THEN TRUE ELSE @,
                !.older = IF sl[t].pc = "likedQuery" THEN @ \ {p} ELSE @]]

\* What a committed write to document p means for the other requests in
\* flight: a transaction that has read p and not yet committed will find p
\* changed, and p is now newer than any cursor snapshot taken earlier.
WriteSeen(sl, p, self) ==
    [t \in DOMAIN sl |->
        IF t = self THEN sl[t]
        ELSE [sl[t] EXCEPT
                !.dirty = IF sl[t].pc = "txCommit" /\ sl[t].pid = p THEN TRUE ELSE @,
                !.older = IF sl[t].pc = "likedQuery" THEN @ \ {p} ELSE @]]

CanStart(s) == slots[s].pc = "idle" /\ started < MaxCalls

\* ResponseHandler.*: the request in slot s is over.
Reply(s, call, r) ==
    /\ slots' = [slots EXCEPT ![s] = IdleSlot]
    /\ response' = [op |-> call.op, pid |-> call.pid, user |-> call.user,
                    limit |-> call.limit, cursor |-> call.cursor, body |-> r]

\* the handler in slot s goes on to its next await
Goto(s, call) ==
    /\ slots' = [slots EXCEPT ![s] = call]
    /\ response' = NoResponse

\* the same after a write to document p
GotoAfterWrite(s, p, at) ==
    /\ slots' = [WriteSeen(slots, p, s) EXCEPT ![s] = [@ EXCEPT !.pc = at]]
    /\ response' = NoResponse

TypeOK ==
    /\ revision \in Revisions
    /\ started \in 0..MaxCalls
    /\ \A p \in Products : store[p].exists \in BOOLEAN
    /\ response.body.status \in {0, 200, 201, 400, 401, 403, 404, 500}
    /\ \A s \in Slots : slots[s].pc \in {"idle", "get", "update", "txGet",
                                          "txCommit", "getById",
                                          "likedQuery", "updWrite", "updRead",
                                          "delWrite", "pointsWrite",
                                          "createWrite"}

Init ==
    /\ revision \in Revisions
    /\ store \in {[p \in Products |-> IF p = "p1" THEN FreshDoc ELSE d2] :
                    d2 \in {FreshDoc, NoDoc}}
    /\ recency = SelectSeq(DocIdOrder, LAMBDA p : p \in DOMAIN store /\ store[p].exists)
    /\ slots = [s \in Slots |-> IdleSlot]
    /\ response = NoResponse
    /\ issued = EmptyBag
    /\ succeeded = EmptyBag
    /\ started = 0
    /\ log = <<>>

\* a handler that takes the request without looking at user.uid
IdentityUnchecked(u) == TRUE

\* ------------------------------------------------ like / unlike: controller
\* likeProduct / unlikeProduct up to the call into the service: a request
\* without user.uid is answered 401 and goes no further.
HasIdentity(u) == u # NoUser

EnterLikeHandler(s, o, p, u) ==
    /\ started' = started + 1
    /\ IF ~HasIdentity(u)
       THEN /\ Reply(s, NewCall(o, p, u, "idle"), ErrorResp(401))
            /\ UNCHANGED issued
       ELSE /\ Goto(s, [NewCall(o, p, u, IF revision = "direct" THEN "get" ELSE "txGet")
                          EXCEPT !.attempts = 1])
            /\ issued' = BagAdd(issued, <<o, p, u>>)
    /\ UNCHANGED <<revision, store, recency, succeeded>>

likeProduct(s, p, u) ==
    CanStart(s) /\ EnterLikeHandler(s, "like", p, u) /\ UNCHANGED log

unlikeProduct(s, p, u) ==
    CanStart(s) /\ EnterLikeHandler(s, "unlike", p, u) /\ UNCHANGED log

\* ------------------------------------------- direct revision: repository
\* addLike, first await: docRef.get(); a missing document returns null, which
\* the controller answers with 404.
AddLikeExists(doc) == doc.exists

AddLikeGet(s) ==
    /\ slots[s].pc = "get" /\ slots[s].op = "like"
    /\ IF AddLikeExists(store[slots[s].pid])
       THEN Goto(s, [slots[s] EXCEPT !.pc = "update"])
       ELSE Reply(s, slots[s], ErrorResp(404))
    /\ UNCHANGED <<log, revision, store, recency, issued, succeeded, started>>

\* addLike, second await: docRef.update({arrayUnion, increment(1), updatedAt}).
\* update() of a document that does not exist rejects; the controller's catch
\* answers 500.
AddLikeUpdate(s) ==
    /\ slots[s].pc = "update" /\ slots[s].op = "like"
    /\ LET p == slots[s].pid
           doc == store[p] IN
         IF doc.exists
         THEN /\ store' = [store EXCEPT ![p] = DirectAddLikeUpdate(doc, slots[s].user)]
              /\ recency' = Touch(recency, p)
              /\ GotoAfterWrite(s, p, "getById")
         ELSE /\ Reply(s, slots[s], ErrorResp(500))
              /\ UNCHANGED <<store, recency>>
    /\ UNCHANGED <<log, revision, issued, succeeded, started>>

\* removeLike, first await: docRef.get(); remembers whether the user was in
\* likedBy at that moment.
RemoveLikeGet(s) ==
    /\ slots[s].pc = "get" /\ slots[s].op = "unlike"
    /\ LET doc == store[slots[s].pid] IN
         IF doc.exists
         THEN Goto(s, [slots[s] EXCEPT !.pc = "update",
                                       !.wasMember = Includes(doc, slots[s].user)])
         ELSE Reply(s, slots[s], ErrorResp(404))
    /\ UNCHANGED <<log, revision, store, recency, issued, succeeded, started>>

\* removeLike, second await: one of the two docRef.update calls.
RemoveLikeUpdate(s) ==
    /\ slots[s].pc = "update" /\ slots[s].op = "unlike"
    /\ LET p == slots[s].pid
           doc == store[p] IN
         IF doc.exists
         THEN /\ store' = [store EXCEPT ![p] =
                             DirectRemoveLikeUpdate(doc, slots[s].user, slots[s].wasMember)]
              /\ recency' = Touch(recency, p)
              /\ GotoAfterWrite(s, p, "getById")
         ELSE /\ Reply(s, slots[s], ErrorResp(500))
              /\ UNCHANGED <<store, recency>>
    /\ UNCHANGED <<log, revision, issued, succeeded, started>>

\* a transaction function that goes on without the doc.exists check
ExistsUnchecked(doc) == TRUE

\* ------------------------------------ transactional revision: repository
\* One attempt of the transaction function up to its write: transaction.get,
\* the existence check (throwing 'Product not found' ends the transaction and
\* the method returns null), and the reads of likedBy and likes.
TxExists(doc) == doc.exists

TxGet(s) ==
    /\ slots[s].pc = "txGet"
    /\ LET doc == store[slots[s].pid] IN
         IF TxExists(doc)
         THEN Goto(s, [slots[s] EXCEPT !.pc = "txCommit", !.dirty = FALSE,
                                       !.wasMember = Includes(doc, slots[s].user),
                                       !.readLikes = CurrentLikes(doc)])
         ELSE Reply(s, slots[s], ErrorResp(404))
    /\ UNCHANGED <<log, revision, store, recency, issued, succeeded, started>>

addLikeTxGet(s) == slots[s].op = "like" /\ TxGet(s)

removeLikeTxGet(s) == slots[s].op = "unlike" /\ TxGet(s)

\* runTransaction commits only if the document read is unchanged; otherwise it
\* runs the function again, up to MaxAttempts times, and then rejects (the
\* controller's catch answers 500).
TxMustRetry(sl) == sl.dirty

\* a retry loop that gives up after the first retry
TxGivesUpEarly(s) ==
    /\ IF slots[s].attempts = 1
       THEN Goto(s, [slots[s] EXCEPT !.pc = "txGet", !.attempts = @ + 1, !.dirty = FALSE])
       ELSE Reply(s, slots[s], ErrorResp(500))
    /\ UNCHANGED <<store, recency>>

\* runTransaction with maxAttempts: 1
TxFailsOnConflict(s) ==
    /\ Reply(s, slots[s], ErrorResp(500))
    /\ UNCHANGED <<store, recency>>

TxRetryOrFail(s) ==
    /\ IF slots[s].attempts < MaxAttempts
       THEN Goto(s, [slots[s] EXCEPT !.pc = "txGet", !.attempts = @ + 1, !.dirty = FALSE])
       ELSE Reply(s, slots[s], ErrorResp(500))
    /\ UNCHANGED <<store, recency>>

TxApply(s, writes, newDoc) ==
    LET p == slots[s].pid IN
    IF writes
    THEN /\ store' = [store EXCEPT ![p] = newDoc]
         /\ recency' = Touch(recency, p)
         /\ GotoAfterWrite(s, p, "getById")
    ELSE /\ Goto(s, [slots[s] EXCEPT !.pc = "getById"])
         /\ UNCHANGED <<store, recency>>

\* addLike: commit of the transaction.
addLikeTxCommit(s) ==
    /\ slots[s].pc = "txCommit" /\ slots[s].op = "like"
    /\ IF TxMustRetry(slots[s])
       THEN TxRetryOrFail(s)
       ELSE TxApply(s, TxAddLikeWrites(slots[s].wasMember),
                    TxAddLikeUpdate(store[slots[s].pid], slots[s].user, slots[s].wasMember))
    /\ UNCHANGED <<log, revision, issued, succeeded, started>>

\* removeLike: commit of the transaction.
removeLikeTxCommit(s) ==
    /\ slots[s].pc = "txCommit" /\ slots[s].op = "unlike"
    /\ IF TxMustRetry(slots[s])
       THEN TxRetryOrFail(s)
       ELSE TxApply(s, TRUE,
                    TxRemoveLikeUpdate(store[slots[s].pid], slots[s].user,
                                       slots[s].wasMember, slots[s].readLikes))
    /\ UNCHANGED <<log, revision, issued, succeeded, started>>

\* ------------------------------------------------ both revisions: the end
\* return this.getById(id), then the controller: null is answered 404,
\* otherwise { likeCount: product.likes || 0, isLikedByUser: true | false }.
getByIdAndRespond(s) ==
    /\ slots[s].pc = "getById"
    /\ LET doc == store[slots[s].pid] IN
         IF doc.exists
         THEN /\ Reply(s, slots[s], LikeResp(doc, slots[s].op = "like"))
              /\ succeeded' = BagAdd(succeeded, <<slots[s].op, slots[s].pid, slots[s].user>>)
         ELSE /\ Reply(s, slots[s], ErrorResp(404))
              /\ UNCHANGED succeeded
    /\ UNCHANGED <<log, revision, store, recency, issued, started>>

\* ------------------------------------------------------- read endpoints
\* getProductById: one read, then the public view of the revision.
ProductView(doc, u) ==
    IF revision = "direct" THEN SpreadProductResponse(doc, u)
    ELSE formatProductResponse(doc, u)

getProductById(s, p, u) ==
    /\ CanStart(s)
    /\ started' = started + 1
    /\ LET doc == store[p] IN
         Reply(s, NewCall("get", p, u, "idle"),
               IF doc.exists THEN ProductView(doc, u) ELSE ErrorResp(404))
    /\ UNCHANGED <<log, revision, store, recency, issued, succeeded>>

\* req.query.limit ? parseInt(req.query.limit, 10) : 20
\* (a present parameter is the decimal text of a positive number)
ParseLimit(l) == IF l = NoParam THEN DefaultLimit ELSE l

Take(seq, n) == SubSeq(seq, 1, Min(n, Len(seq)))

\* startAt in place of startAfter: the cursor document is listed again
AtOrAfter(rec, p) == {rec[i] : i \in {j \in DOMAIN rec : \E k \in 1..j : rec[k] = p}}

\* documents that come after p when ordered by updatedAt descending
After(rec, p) == {rec[i] : i \in {j \in DOMAIN rec : \E k \in 1..(j - 1) : rec[k] = p}}

\* a query that leaves out what the session has been served already
SessionPage(u, l, hasCur, older) ==
    LET served == UNION {Range(log[i].page) : i \in DOMAIN log}
        matching == SelectSeq(recency, LAMBDA q : Includes(store[q], u) /\ q \notin served)
        fromCursor == IF hasCur THEN SelectSeq(matching, LAMBDA q : q \in older)
                      ELSE matching
    IN  Take(fromCursor, ParseLimit(l))

\* a query without the where clause
UnfilteredPage(u, l, hasCur, older) ==
    Take(IF hasCur THEN SelectSeq(recency, LAMBDA q : q \in older) ELSE recency,
         ParseLimit(l))

\* transactional revision, getProductsLikedByUser: where likedBy array-contains
\* userId, orderBy updatedAt desc, limit, startAfter(startDoc) when it exists.
LikedQueryPage(u, l, hasCur, older) ==
    LET matching == SelectSeq(recency, LAMBDA q : Includes(store[q], u))
        fromCursor == IF hasCur THEN SelectSeq(matching, LAMBDA q : q \in older)
                      ELSE matching
    IN  Take(fromCursor, ParseLimit(l))

\* direct revision, getProductsLikedByUser: the bare array-contains query.
DirectLikedQueryPage(u) ==
    SelectSeq(DocIdOrder, LAMBDA q : q \in DOMAIN store /\ Includes(store[q], u))

\* startAfter without the startDoc.exists check
StartDocAssumed(doc) == TRUE

\* if (startDoc.exists) query = query.startAfter(startDoc)
StartDocFound(doc) == doc.exists

PageResp(page, key) == [NoResp EXCEPT !.status = 200, !.page = page,
                                      !.isLikedByUser = page # <<>>,
                                      !.likedByKey = key]

\* getLikedProducts up to and including its first read.  The direct revision
\* does not look at the query parameters: whatever limit and startAfter the
\* request carries, it runs the bare query.
ListLiked(s, u, l, c) ==
    /\ started' = started + 1
    /\ LET call == [NewCall("liked", "p1", u, "idle") EXCEPT !.limit = l, !.cursor = c] IN
         IF ~HasIdentity(u) THEN Reply(s, call, ErrorResp(401))
         ELSE IF revision = "direct"
         THEN LET page == DirectLikedQueryPage(u) IN
                Reply(s, call, PageResp(page, page # <<>>))
         ELSE IF c = "none"
         THEN Reply(s, call, PageResp(LikedQueryPage(u, l, FALSE, {}), FALSE))
         ELSE \* startDoc = await doc(startAfter).get()
              Goto(s, [call EXCEPT !.pc = "likedQuery",
                                   !.hasCursor = StartDocFound(store[c]),
                                   !.older = IF StartDocFound(store[c])
                                             THEN After(recency, c) ELSE {}])
    /\ UNCHANGED <<revision, store, recency, issued, succeeded>>

getLikedProducts(s, u, l, c) == CanStart(s) /\ ListLiked(s, u, l, c) /\ UNCHANGED log

\* transactional revision: the query that follows the read of the cursor
\* document.
RunLikedQuery(s) ==
    /\ slots[s].pc = "likedQuery"
    /\ LET sl == slots[s] IN
         Reply(s, sl, PageResp(LikedQueryPage(sl.user, sl.limit, sl.hasCursor, sl.older), FALSE))
    /\ UNCHANGED <<revision, store, recency, issued, succeeded, started>>

likedQuery(s) == RunLikedQuery(s) /\ UNCHANGED log

\* ------------------------------------------------------- product update
\* updateProduct up to the ownership check: 404 for a missing product, 403
\* when the caller is not the seller.  The route's authMiddleware has set
\* req.user (the handler dereferences it unguarded).
EditProductWith(s, p, u, b) ==
    /\ u # NoUser
    /\ started' = started + 1
    /\ LET doc == store[p] IN
         IF ~doc.exists
         THEN Reply(s, NewCall("update", p, u, "idle"), ErrorResp(404))
         ELSE IF Owner(p) # u
         THEN Reply(s, NewCall("update", p, u, "idle"), ErrorResp(403))
         ELSE Goto(s, [NewCall("update", p, u, "updWrite") EXCEPT !.body = b])
    /\ UNCHANGED <<log, revision, store, recency, issued, succeeded>>

\* an update whose body has no likes key
EditProduct(s, p, u) == EditProductWith(s, p, u, NoLikesBody)

updateProduct(s, p, u) == CanStart(s) /\ EditProduct(s, p, u)

\* A transaction of the server SDK locks the document it has read: a write
\* from outside a transaction waits until that transaction has ended.
LockedByTransaction(p) == \E t \in DOMAIN slots : slots[t].pc = "txCommit" /\ slots[t].pid = p

\* docRef.update({...product, updatedAt}): every key of the body is written
\* over the stored field of the same name.
UpdateFields(doc, b) == IF b.hasLikes THEN SetLikes(doc, b.likes) ELSE doc

\* ProductRepository.update: docRef.update({...product, updatedAt}); update()
\* of a document that is gone rejects and the controller's catch answers 500.
updateWrite(s) ==
    /\ slots[s].pc = "updWrite"
    /\ ~LockedByTransaction(slots[s].pid)
    /\ LET p == slots[s].pid IN
         IF store[p].exists
         THEN /\ store' = [store EXCEPT ![p] = UpdateFields(store[p], slots[s].body)]
              /\ recency' = Touch(recency, p)
              /\ GotoAfterWrite(s, p, "updRead")
         ELSE /\ Reply(s, slots[s], ErrorResp(500))
              /\ UNCHANGED <<store, recency>>
    /\ UNCHANGED <<log, revision, issued, succeeded, started>>

\* return this.getById(id); the controller sends the record as it is (null
\* when the record is gone).
updateRespond(s) ==
    /\ slots[s].pc = "updRead"
    /\ Reply(s, slots[s], RawProductResponse(store[slots[s].pid]))
    /\ UNCHANGED <<log, revision, store, recency, issued, succeeded, started>>

\* ------------------------------------------------------------- behaviours
Next ==
    \/ \E s \in Slots, p \in Products, u \in Users \cup {NoUser} : likeProduct(s, p, u)
    \/ \E s \in Slots, p \in Products, u \in Users \cup {NoUser} : unlikeProduct(s, p, u)
    \/ \E s \in Slots : AddLikeGet(s)
    \/ \E s \in Slots : AddLikeUpdate(s)
    \/ \E s \in Slots : RemoveLikeGet(s)
    \/ \E s \in Slots : RemoveLikeUpdate(s)
    \/ \E s \in Slots : addLikeTxGet(s)
    \/ \E s \in Slots : addLikeTxCommit(s)
    \/ \E s \in Slots : removeLikeTxGet(s)
    \/ \E s \in Slots : removeLikeTxCommit(s)
    \/ \E s \in Slots : getByIdAndRespond(s)
    \/ \E s \in Slots, p \in Products, u \in Users \cup {NoUser} : getProductById(s, p, u)
    \/ \E s \in Slots, u \in Users \cup {NoUser}, l \in LimitParams, c \in CursorParams :
          getLikedProducts(s, u, l, c)
    \/ \E s \in Slots : likedQuery(s)
    \/ \E s \in Slots, p \in Products, u \in Users : updateProduct(s, p, u)
    \/ \E s \in Slots : updateWrite(s)
    \/ \E s \in Slots : updateRespond(s)

Spec == Init /\ [][Next]_vars

\* ------------------------------------------------------------ properties
Quiescent == \A s \in DOMAIN slots : slots[s].pc = "idle"

\* number of times u occurs in the likedBy array
Occurrences(doc, u) == Cardinality({i \in DOMAIN doc.likedBy : doc.likedBy[i] = u})

\* C1: set-counter consistency.  In every state a reader can observe, the
\* like counter of a product equals the number of distinct users in likedBy.
SetCounterConsistency ==
    \A p \in Products :
        store[p].exists => LikeCount(store[p]) = Cardinality(Members(store[p]))

\* The same for the transactional revision alone.
TxSetCounterConsistency == revision = "transactional" => SetCounterConsistency

\* C2: two like calls for the same (product, user) that are in flight together,
\* the only calls made so far on a fresh product, have both written: the counter
\* has grown by exactly one and the user is in likedBy exactly once.
RacingLikesSameUser(s, t) ==
    /\ s # t
    /\ slots[s].pc = "getById" /\ slots[t].pc = "getById"
    /\ slots[s].op = "like" /\ slots[t].op = "like"
    /\ slots[s].pid = slots[t].pid
    /\ slots[s].user = slots[t].user

ConcurrentDuplicateLikeCountsOnce ==
    \A s, t \in DOMAIN slots :
        (started = 2 /\ RacingLikesSameUser(s, t)) =>
            /\ LikeCount(store[slots[s].pid]) = 1
            /\ Occurrences(store[slots[s].pid], slots[s].user) = 1

\* The same for the transactional revision alone.
TxConcurrentDuplicateLikeCountsOnce ==
    revision = "transactional" => ConcurrentDuplicateLikeCountsOnce

\* C4: non-negativity.  The like counter of a product is never below zero.
NonNegativity ==
    \A p \in Products : store[p].exists => LikeCount(store[p]) >= 0

\* The same for the transactional revision alone.
TxNonNegativity == revision = "transactional" => NonNegativity

\* The step in which the like / unlike call of slot s performs its write (or,
\* in the transactional revision, commits without one).
WriteStep(s, o) ==
    /\ slots[s].op = o
    /\ slots[s].pc \in {"update", "txCommit"}
    /\ slots'[s].pc = "getById"

\* The step in which the call of slot s is answered.
AnswerStep(s, o) ==
    /\ slots[s].op = o
    /\ slots[s].pc = "getById"
    /\ slots'[s].pc = "idle"

\* C5: idempotent like.  When the user is already in likedBy at the moment the
\* like call writes, the call changes nothing in the store.
IdempotentLike ==
    [][\A s \in DOMAIN slots :
         (WriteStep(s, "like") /\ Includes(store[slots[s].pid], slots[s].user))
            => store' = store]_vars

\* The same for the transactional revision alone.
TxIdempotentLike ==
    [][revision = "transactional" =>
         \A s \in DOMAIN slots :
            (WriteStep(s, "like") /\ Includes(store[slots[s].pid], slots[s].user))
               => store' = store]_vars

\* C6: idempotent unlike.  An unlike call that found the user absent from
\* likedBy of an existing product leaves the counter as it is when it writes,
\* and is answered 200 with that counter.
IdempotentUnlike ==
    [][\A s \in DOMAIN slots :
         LET p == slots[s].pid IN
         ~slots[s].wasMember =>
            /\ WriteStep(s, "unlike") => LikeCount(store'[p]) = LikeCount(store[p])
            /\ AnswerStep(s, "unlike") =>
                  /\ response'.body.status = 200
                  /\ response'.body.likeCount = LikeCount(store[p])
                  /\ ~response'.body.isLikedByUser]_vars

\* C6 witness: the only call made so far was an unlike by a user who never
\* liked the product, and it has been answered 200 with the counter at 0.
UnlikeOfNonMemberAnswered ==
    /\ started = 1
    /\ response.op = "unlike"
    /\ response.body.status = 200
    /\ response.body.likeCount = 0
    /\ ~Includes(store[response.pid], response.user)

\* C7: privacy.  No response body carries a likedBy key.
NoLikedByInResponses == ~response.body.likedByKey

\* The same for the transactional revision alone.
TxNoLikedByInResponses == revision = "transactional" => NoLikedByInResponses

\* ----------------------------------------------------- serial executions
\* addLike / removeLike of the deployed revision run alone on doc: the read
\* and the write see the same document.
SerialApply(doc, o, u) ==
    IF revision = "direct"
    THEN IF o = "like" THEN DirectAddLikeUpdate(doc, u)
         ELSE DirectRemoveLikeUpdate(doc, u, Includes(doc, u))
    ELSE IF o = "like" THEN TxAddLikeUpdate(doc, u, Includes(doc, u))
         ELSE TxRemoveLikeUpdate(doc, u, Includes(doc, u), CurrentLikes(doc))

\* the documents that the calls of bag b, applied one at a time in any order,
\* can leave behind
RECURSIVE SerialOutcomes(_, _)
SerialOutcomes(doc, b) ==
    LET left == {c \in DOMAIN b : b[c] > 0} IN
    IF left = {} THEN {doc}
    ELSE UNION {SerialOutcomes(SerialApply(doc, c[1], c[3]), [b EXCEPT ![c] = @ - 1]) :
                   c \in left}

\* the calls of bag b that address product p
CallsOn(b, p) == [c \in DOMAIN b |-> IF c[2] = p THEN b[c] ELSE 0]

\* the pair (likedBy, likeCount) of a product
LikeState(doc) == <<Members(doc), LikeCount(doc)>>

\* C8: serializability per product.  Once every like / unlike call made has
\* been answered with success, the (likedBy, likeCount) of each product is what
\* some one-at-a-time order of those calls produces from the fresh product.
Serializable ==
    (Quiescent /\ succeeded = issued) =>
        \A p \in Products :
            store[p].exists =>
                LikeState(store[p]) \in
                    {LikeState(d) : d \in SerialOutcomes(FreshDoc, CallsOn(issued, p))}

\* The same for the transactional revision alone.
TxSerializable == revision = "transactional" => Serializable

\* The step in which the like / unlike call of slot s does its first read.
FirstReadStep(s) ==
    /\ slots[s].op \in {"like", "unlike"}
    /\ slots[s].pc \in {"get", "txGet"}
    /\ slots'[s] # slots[s]

\* C9: not found.  A like or unlike call whose first read finds no product
\* record is answered 404 there and then; no record is created or changed.
NotFoundChangesNothing ==
    [][\A s \in DOMAIN slots :
         (FirstReadStep(s) /\ ~store[slots[s].pid].exists) =>
            /\ slots'[s].pc = "idle"
            /\ response'.op = slots[s].op /\ response'.pid = slots[s].pid
            /\ response'.body.status = 404
            /\ store' = store
            /\ recency' = recency]_vars

\* C9 witness: a like of a product that has no record has been answered 404
\* and the product still has no record.
LikeOfMissingProductAnswered ==
    /\ response.op = "like"
    /\ response.user # NoUser
    /\ response.body.status = 404
    /\ store[response.pid] = NoDoc

\* C10: unauthenticated.  A like, unlike or list-liked request without a caller
\* identity is answered 401 by the step that receives it, that step leaves the
\* store as it is, and no such request is ever in flight towards the store.
UnauthenticatedRejected ==
    [][/\ (response'.op \in {"like", "unlike", "liked"} /\ response'.user = NoUser) =>
              /\ response'.body.status = 401
              /\ store' = store
              /\ recency' = recency
       /\ \A s \in DOMAIN slots :
              (slots'[s].pc # "idle" /\ slots'[s].op \in {"like", "unlike", "liked"})
                  => slots'[s].user # NoUser]_vars

\* C10 witness: an unlike without identity has been answered 401 while the
\* product it names carries a like that is still there.
UnauthenticatedUnlikeAnswered ==
    /\ response.op = "unlike"
    /\ response.user = NoUser
    /\ response.body.status = 401
    /\ LikeCount(store[response.pid]) = 1

\* ------------------------------------------ many users like one product
\* NumLikers distinct users each send one like for the fresh product p1; the
\* requests overlap in every possible way.
NumLikers == 6
\* at most this many of the requests are in flight at any moment
MaxInFlight == 3

Likers == 1..NumLikers

LikerCalls == {"like"} \X {"p1"} \X Likers

InitContention ==
    /\ revision \in Revisions
    /\ store = [p \in Products |-> IF p = "p1" THEN FreshDoc ELSE NoDoc]
    /\ recency = <<"p1">>
    /\ slots = [s \in Likers |-> IdleSlot]
    /\ response = NoResponse
    /\ issued = [c \in LikerCalls |-> 0]
    /\ succeeded = [c \in LikerCalls |-> 0]
    /\ started = 0
    /\ log = <<>>

\* User s sends the one like request of theirs.  The users are numbered in
\* the order in which their requests arrive.
LikerLikesProduct(s) ==
    /\ slots[s].pc = "idle"
    /\ s = started + 1
    /\ Cardinality({t \in Likers : slots[t].pc # "idle"}) < MaxInFlight
    /\ EnterLikeHandler(s, "like", "p1", s)
    /\ UNCHANGED log

NextContention ==
    \/ \E s \in Likers : LikerLikesProduct(s)
    \/ \E s \in Likers : AddLikeGet(s)
    \/ \E s \in Likers : AddLikeUpdate(s)
    \/ \E s \in Likers : addLikeTxGet(s)
    \/ \E s \in Likers : addLikeTxCommit(s)
    \/ \E s \in Likers : getByIdAndRespond(s)

SpecContention == InitContention /\ [][NextContention]_vars

\* the users whose like has been answered with success
Succeeded == {c[3] : c \in {d \in DOMAIN succeeded : succeeded[d] > 0}}

MaxSerialCalls == 4

SerialSlots == {1}

InitSerial ==
    /\ revision \in Revisions
    /\ store = [p \in Products |-> FreshDoc]
    /\ recency = SelectSeq(DocIdOrder, LAMBDA p : p \in DOMAIN store)
    /\ slots = [s \in SerialSlots |-> IdleSlot]
    /\ response = NoResponse
    /\ issued = EmptyBag
    /\ succeeded = EmptyBag
    /\ started = 0
    /\ log = <<>>

SerialCall(s, o, p, u) ==
    /\ Quiescent
    /\ Len(log) < MaxSerialCalls
    /\ EnterLikeHandler(s, o, p, u)
    /\ log' = Append(log, <<o, p, u>>)

NextSerial ==
    \/ \E s \in SerialSlots, c \in Calls : SerialCall(s, c[1], c[2], c[3])
    \/ \E s \in SerialSlots : AddLikeGet(s)
    \/ \E s \in SerialSlots : AddLikeUpdate(s)
    \/ \E s \in SerialSlots : RemoveLikeGet(s)
    \/ \E s \in SerialSlots : RemoveLikeUpdate(s)
    \/ \E s \in SerialSlots : addLikeTxGet(s)
    \/ \E s \in SerialSlots : addLikeTxCommit(s)
    \/ \E s \in SerialSlots : removeLikeTxGet(s)
    \/ \E s \in SerialSlots : removeLikeTxCommit(s)
    \/ \E s \in SerialSlots : getByIdAndRespond(s)

SpecSerial == InitSerial /\ [][NextSerial]_vars

\* the calls of the scenario and the answers it expects
ScenarioCalls ==
    << <<"like", "p1", 1>>, <<"like", "p1", 1>>, <<"like", "p1", 2>>, <<"unlike", "p1", 1>> >>

ScenarioLikeCount == <<1, 1, 2, 1>>

ScenarioIsLiked == <<TRUE, TRUE, TRUE, FALSE>>

\* the k-th call of the scenario has just been answered
ScenarioAnswered(k) ==
    /\ log = SubSeq(ScenarioCalls, 1, k)
    /\ response.op # "none"

\* C11: scenario trace.  On a fresh p1 the sequential calls like(p1,u1),
\* like(p1,u1), like(p1,u2), unlike(p1,u1) are answered, in order, with
\* likeCount 1, 1, 2, 1 and isLikedByUser true, true, (unstated), false.
ScenarioTrace ==
    \A k \in DOMAIN ScenarioCalls :
        ScenarioAnswered(k) =>
            /\ response.body.status = 200
            /\ response.body.likeCount = ScenarioLikeCount[k]
            /\ (k # 3) => (response.body.isLikedByUser = ScenarioIsLiked[k])

\* The same for the transactional revision alone.
TxScenarioTrace == revision = "transactional" => ScenarioTrace

\* C12: isLikedByUser.  The flag of a product view is false for a request
\* without viewer identity and otherwise true exactly when the viewer is in the
\* likedBy of the product (false when the record has no likedBy); the products
\* of a liked listing carry the flag true and have the viewer in likedBy.
IsLikedByUserCorrect ==
    /\ (response.op = "get" /\ response.body.status = 200) =>
          response.body.isLikedByUser =
              (response.user # NoUser /\ response.user \in Members(store[response.pid]))
    /\ (response.op = "liked" /\ response.body.status = 200 /\ response.body.page # <<>>) =>
          /\ response.body.isLikedByUser
          /\ \A q \in Range(response.body.page) : response.user \in Members(store[q])

\* C12 witness: a viewer who is not in likedBy of a product that somebody else
\* has liked fetches it and is told isLikedByUser false.
ViewOfProductLikedByOthers ==
    /\ response.op = "get"
    /\ response.user # NoUser
    /\ response.body.status = 200
    /\ ~response.body.isLikedByUser
    /\ Members(store[response.pid]) # {}

\* ------------------------------------------------------- liked listing
\* a liked listing has just been answered
ListingAnswered == response.op = "liked" /\ response.body.status = 200

\* the products that have u in likedBy
LikedProducts(u) == {q \in DOMAIN store : Includes(store[q], u)}

\* C14: listing filter.  Every product of a liked listing has the caller in
\* its likedBy when the listing is read; without a cursor, and when the
\* caller's liked products number at most limit, all of them are listed.
ListingFilter ==
    ListingAnswered =>
        /\ Range(response.body.page) \subseteq LikedProducts(response.user)
        /\ (/\ response.cursor = "none"
            /\ Cardinality(LikedProducts(response.user)) <= ParseLimit(response.limit))
              => Range(response.body.page) = LikedProducts(response.user)

\* C14 witness: a caller who has liked both products lists them without a
\* cursor and gets both.
BothLikedProductsListed ==
    /\ ListingAnswered
    /\ response.cursor = "none"
    /\ Len(response.body.page) = 2
    /\ Cardinality(LikedProducts(response.user)) = 2

\* C16: page size bound.  A liked listing holds at most limit products, where
\* limit is the requested value, or 20 when the request has none.
PageSizeBound ==
    ListingAnswered => Len(response.body.page) <= ParseLimit(response.limit)

\* The same for the transactional revision alone.
TxPageSizeBound == revision = "transactional" => PageSizeBound

\* C17: maximum page size.  Whatever limit is requested, a liked listing neither
\* returns more than 100 products nor runs its query with a limit above 100.
PageSizeCapped ==
    ListingAnswered =>
        /\ Len(response.body.page) <= 100
        /\ revision = "transactional" => ParseLimit(response.limit) <= 100

\* what the same request without a cursor is answered with
HeadPage(u, l) ==
    IF revision = "direct" THEN DirectLikedQueryPage(u)
    ELSE LikedQueryPage(u, l, FALSE, {})

\* C18: stale cursor.  A liked listing whose cursor names no existing product
\* is answered, without error, with the page the same request without a cursor
\* gets.
StaleCursorStartsFromHead ==
    (/\ response.op = "liked"
     /\ response.user # NoUser
     /\ response.cursor # "none"
     /\ ~store[response.cursor].exists)
       => /\ response.body.status = 200
          /\ response.body.page = HeadPage(response.user, response.limit)

\* C18 witness: a caller with a liked product lists with a cursor that names
\* no product and gets that product.
StaleCursorListingAnswered ==
    /\ ListingAnswered
    /\ response.cursor # "none"
    /\ ~store[response.cursor].exists
    /\ response.body.page # <<>>

\* ------------------------------------------------------- paging session
\* The viewer has liked p1, p2 and p3, in that order, and now pages through
\* the liked listing: each request after the first carries the id of the last
\* product of the page before as startAfter.  Meanwhile another user likes and
\* unlikes products and edits the products they sell.  log holds the pages
\* the viewer has received.
MaxPagingCalls == 6

PagingProducts == {"p1", "p2", "p3"}

Viewer == 1

OtherUser == 2

ViewerSlot == 1

OtherSlot == 2

PagingCalls == {"like", "unlike"} \X PagingProducts \X {OtherUser}

\* a product that u, and nobody else, has liked
LikedDoc(u) == [exists |-> TRUE, hasLikes |-> TRUE, likes |-> 1,
                hasLikedBy |-> TRUE, likedBy |-> <<u>>]

\* products by their last like, most recent first, when the session starts
InitialActivity == <<"p3", "p2", "p1">>

InitPaging ==
    /\ revision \in Revisions
    /\ store = [p \in PagingProducts |-> LikedDoc(Viewer)]
    /\ recency = InitialActivity
    /\ slots = [s \in {ViewerSlot, OtherSlot} |-> IdleSlot]
    /\ response = NoResponse
    /\ issued = [c \in PagingCalls |-> 0]
    /\ succeeded = [c \in PagingCalls |-> 0]
    /\ started = 0
    /\ log = <<>>

\* the token a page offers for the next request: the id of its last product
NextCursor(page) == IF page = <<>> THEN "none" ELSE page[Len(page)]

LogPage == Append(log, [limit |-> response'.limit, cursor |-> response'.cursor,
                        page |-> response'.body.page])

\* the viewer asks for the first page, or for the page after the last one
PageRequest(l) ==
    /\ slots[ViewerSlot].pc = "idle"
    /\ started < MaxPagingCalls
    /\ IF log = <<>> THEN TRUE
       ELSE log[Len(log)].page # <<>> /\ l = log[1].limit
    /\ ListLiked(ViewerSlot, Viewer, l,
                 IF log = <<>> THEN "none" ELSE NextCursor(log[Len(log)].page))
    /\ log' = IF response'.op = "liked" THEN LogPage ELSE log

\* the query of a request that carried a cursor is answered
PageQuery == RunLikedQuery(ViewerSlot) /\ log' = LogPage

\* the other user likes or unlikes a product
OtherLikes(o, p) ==
    /\ slots[OtherSlot].pc = "idle"
    /\ started < MaxPagingCalls
    /\ EnterLikeHandler(OtherSlot, o, p, OtherUser)
    /\ UNCHANGED log

\* the other user edits a product
OtherEdits(p) ==
    /\ slots[OtherSlot].pc = "idle"
    /\ started < MaxPagingCalls
    /\ EditProduct(OtherSlot, p, OtherUser)

NextPaging ==
    \/ \E l \in 1..MaxLimit : PageRequest(l)
    \/ PageQuery
    \/ \E o \in {"like", "unlike"}, p \in PagingProducts : OtherLikes(o, p)
    \/ \E p \in PagingProducts : OtherEdits(p)
    \/ AddLikeGet(OtherSlot)
    \/ AddLikeUpdate(OtherSlot)
    \/ RemoveLikeGet(OtherSlot)
    \/ RemoveLikeUpdate(OtherSlot)
    \/ addLikeTxGet(OtherSlot)
    \/ addLikeTxCommit(OtherSlot)
    \/ removeLikeTxGet(OtherSlot)
    \/ removeLikeTxCommit(OtherSlot)
    \/ getByIdAndRespond(OtherSlot)
    \/ updateWrite(OtherSlot)
    \/ updateRespond(OtherSlot)

SpecPaging == InitPaging /\ [][NextPaging]_vars

BagSize(b) ==
    LET RECURSIVE Sum(_)
        Sum(S) == IF S = {} THEN 0
                  ELSE LET c == CHOOSE x \in S : TRUE IN b[c] + Sum(S \ {c})
    IN  Sum(DOMAIN b)

\* listing requests the viewer has sent
ViewerRequests == Len(log) + (IF slots[ViewerSlot].pc = "idle" THEN 0 ELSE 1)

\* nobody but the viewer has sent a request since the session began
NoOtherActivity == started = ViewerRequests

\* no like or unlike has been sent since the session began
NoLikeActivity == BagSize(issued) = 0

\* no product has been edited since the session began
NoEdits == started = ViewerRequests + BagSize(issued)

\* position of p in seq
Pos(seq, p) == CHOOSE i \in DOMAIN seq : seq[i] = p

\* page lists its products in the order in which they occur in order
InOrderOf(page, order) ==
    \A i, j \in DOMAIN page : i < j => Pos(order, page[i]) < Pos(order, page[j])

\* the products on the pages received so far
Listed == UNION {Range(log[i].page) : i \in DOMAIN log}

ListingOrder ==
    NoLikeActivity => \A i \in DOMAIN log : InOrderOf(log[i].page, InitialActivity)

\* The same for the transactional revision alone.
TxListingOrder == revision = "transactional" => ListingOrder

\* C19: paging session stability.  While other users like and unlike products
\* (and nobody edits one), no product is on two pages of the session, and when
\* the session has reached an empty page every product the viewer has liked
\* throughout has been on a page.
SessionStable ==
    (NoEdits /\ log # <<>>) =>
        /\ \A i, j \in DOMAIN log :
              i < j => Range(log[i].page) \cap Range(log[j].page) = {}
        /\ log[Len(log)].page = <<>> => Listed = PagingProducts

\* The same for the transactional revision alone.
TxSessionStable == revision = "transactional" => SessionStable

\* ------------------------------------------------------- bounded retry
\* The event loop runs every pending continuation: a request in flight always
\* has a next step, and some step is taken as long as one is possible.
SpecContentionFair == SpecContention /\ WF_vars(NextContention)

\* the transaction of slot s is refused: its last attempt found the document
\* changed
RefusedStep(s) ==
    /\ slots[s].pc = "txCommit"
    /\ slots'[s].pc = "idle"

\* C20: bounded retry.  A transaction that finds its document changed runs
\* again, never more than MaxAttempts times in all; a call is refused (500)
\* only after the last of these attempts has met a conflict, and then without
\* writing; and every call that has been sent is answered: from some moment on
\* no request is in flight.
BoundedRetry ==
    /\ [](\A s \in DOMAIN slots : slots[s].attempts <= MaxAttempts)
    /\ [][\A s \in DOMAIN slots :
            RefusedStep(s) =>
               /\ slots[s].attempts = MaxAttempts
               /\ slots[s].dirty
               /\ response'.body.status = 500
               /\ store' = store]_vars
    /\ <>[]Quiescent

\* C20 witness: a like has been refused with 500 after its last attempt.
ConflictSurfaced ==
    /\ response.op = "like"
    /\ response.body.status = 500
    /\ revision = "transactional"

\* ------------------------------------------------- other catalogue writes
\* Besides like and unlike the catalogue has three more writers of an existing
\* product record: the update endpoint, whose body may carry a likes number,
\* the delete endpoint, and ProductService.changePoints, which no route calls
\* and which is modelled as a call on the service.  Here they run next to the
\* like / unlike requests.
MaxBodyLikes == 1

LikesBodies == {NoLikesBody} \cup {[hasLikes |-> TRUE, likes |-> n] : n \in 0..MaxBodyLikes}

Deltas == {-1, 1}

\* the request in slot s is over, and its last step wrote document p
ReplyAfterWrite(s, p, call, r) ==
    /\ slots' = [WriteSeen(slots, p, s) EXCEPT ![s] = IdleSlot]
    /\ response' = [op |-> call.op, pid |-> call.pid, user |-> call.user,
                    limit |-> call.limit, cursor |-> call.cursor, body |-> r]

\* PUT /api/products/:id with any body
updateProductLikes(s, p, u, b) == CanStart(s) /\ EditProductWith(s, p, u, b)

\* deleteProduct up to the ownership check.
deleteProduct(s, p, u) ==
    /\ CanStart(s)
    /\ u # NoUser
    /\ started' = started + 1
    /\ LET doc == store[p] IN
         IF ~doc.exists
         THEN Reply(s, NewCall("delete", p, u, "idle"), ErrorResp(404))
         ELSE IF Owner(p) # u
         THEN Reply(s, NewCall("delete", p, u, "idle"), ErrorResp(403))
         ELSE Goto(s, NewCall("delete", p, u, "delWrite"))
    /\ UNCHANGED <<log, revision, store, recency, issued, succeeded>>

\* ProductRepository.delete: the record is removed if it is still there; the
\* controller answers 200 whatever delete returns.
deleteWrite(s) ==
    /\ slots[s].pc = "delWrite"
    /\ ~LockedByTransaction(slots[s].pid)
    /\ LET p == slots[s].pid IN
         /\ store' = [store EXCEPT ![p] = NoDoc]
         /\ recency' = SelectSeq(recency, LAMBDA q : q # p)
         /\ ReplyAfterWrite(s, p, slots[s], [NoResp EXCEPT !.status = 200])
    /\ UNCHANGED <<log, revision, issued, succeeded, started>>

\* adjustLikes: Math.max(0, currentLikes + delta)
AdjustedLikes(currentLikes, d) == Max(0, currentLikes + d)

\* ProductService.changePoints up to the read of adjustLikes: null for a
\* missing product, otherwise the counter is read.
changePoints(s, p, d) ==
    /\ CanStart(s)
    /\ started' = started + 1
    /\ LET doc == store[p] IN
         IF ~doc.exists
         THEN Reply(s, NewCall("points", p, NoUser, "idle"), ErrorResp(404))
         ELSE Goto(s, [NewCall("points", p, NoUser, "pointsWrite")
                          EXCEPT !.delta = d, !.readLikes = CurrentLikes(doc)])
    /\ UNCHANGED <<log, revision, store, recency, issued, succeeded>>

\* adjustLikes: docRef.update({likes: newLikes, updatedAt}).
adjustLikesWrite(s) ==
    /\ slots[s].pc = "pointsWrite"
    /\ ~LockedByTransaction(slots[s].pid)
    /\ LET p == slots[s].pid IN
         IF store[p].exists
         THEN /\ store' = [store EXCEPT ![p] =
                             SetLikes(store[p], AdjustedLikes(slots[s].readLikes, slots[s].delta))]
              /\ recency' = Touch(recency, p)
              /\ GotoAfterWrite(s, p, "updRead")
         ELSE /\ Reply(s, slots[s], ErrorResp(500))
              /\ UNCHANGED <<store, recency>>
    /\ UNCHANGED <<log, revision, issued, succeeded, started>>

InitCatalogue ==
    /\ revision \in Revisions
    /\ store = [p \in Products |-> FreshDoc]
    /\ recency = SelectSeq(DocIdOrder, LAMBDA p : p \in DOMAIN store)
    /\ slots = [s \in Slots |-> IdleSlot]
    /\ response = NoResponse
    /\ issued = EmptyBag
    /\ succeeded = EmptyBag
    /\ started = 0
    /\ log = <<>>

NextCatalogue ==
    \/ \E s \in Slots, p \in Products, u \in Users : likeProduct(s, p, u)
    \/ \E s \in Slots, p \in Products, u \in Users : unlikeProduct(s, p, u)
    \/ \E s \in Slots : AddLikeGet(s)
    \/ \E s \in Slots : AddLikeUpdate(s)
    \/ \E s \in Slots : RemoveLikeGet(s)
    \/ \E s \in Slots : RemoveLikeUpdate(s)
    \/ \E s \in Slots : addLikeTxGet(s)
    \/ \E s \in Slots : addLikeTxCommit(s)
    \/ \E s \in Slots : removeLikeTxGet(s)
    \/ \E s \in Slots : removeLikeTxCommit(s)
    \/ \E s \in Slots : getByIdAndRespond(s)
    \/ \E s \in Slots, p \in Products, u \in Users, b \in LikesBodies :
          updateProductLikes(s, p, u, b)
    \/ \E s \in Slots : updateWrite(s)
    \/ \E s \in Slots : updateRespond(s)
    \/ \E s \in Slots, p \in Products, u \in Users : deleteProduct(s, p, u)
    \/ \E s \in Slots : deleteWrite(s)
    \/ \E s \in Slots, p \in Products, d \in Deltas : changePoints(s, p, d)
    \/ \E s \in Slots : adjustLikesWrite(s)

SpecCatalogue == InitCatalogue /\ [][NextCatalogue]_vars

\* the like / unlike call of sl, now at its closing read, has done a write
Wrote(sl) == revision = "direct" \/ sl.op = "unlike" \/ ~sl.wasMember

\* the like / unlike call of slot s is answered with an error
FailedStep(s) ==
    /\ slots[s].op \in {"like", "unlike"}
    /\ slots[s].pc # "idle"
    /\ slots'[s].pc = "idle"
    /\ response'.body.status # 200

\* a call that is refused has written nothing, neither in the step that
\* refuses it nor before
FailedCallWroteNothing ==
    \A s \in DOMAIN slots :
        FailedStep(s) =>
            /\ store' = store
            /\ recency' = recency
            /\ ~(slots[s].pc = "getById" /\ Wrote(slots[s]))

\* a write of a like / unlike call that changes who is in likedBy changes
\* the counter by as much
MembershipChangeCounted ==
    \A s \in DOMAIN slots :
        (WriteStep(s, "like") \/ WriteStep(s, "unlike")) =>
            LET before == store[slots[s].pid]
                after == store'[slots[s].pid]
            IN  Members(after) # Members(before) =>
                   LikeCount(after) - LikeCount(before) =
                      Cardinality(Members(after)) - Cardinality(Members(before))

\* C21: no partial application.  A like or unlike call that is answered with
\* an error (404, 500) has changed nothing of the product, and no write of a
\* like or unlike call changes likedBy without the matching change of the
\* counter.
NoPartialApplication ==
    [][FailedCallWroteNothing /\ MembershipChangeCounted]_vars

\* The two halves for the transactional revision alone.
TxFailedCallWroteNothing ==
    [][revision = "transactional" => FailedCallWroteNothing]_vars

TxMembershipChangeCounted ==
    [][revision = "transactional" => MembershipChangeCounted]_vars

DirectFailedCallWroteNothing ==
    [][revision = "direct" => FailedCallWroteNothing]_vars

CallStep(s) ==
    /\ slots[s].op \in {"like", "unlike"}
    /\ slots[s].pc # "idle"
    /\ slots'[s].pc # slots[s].pc

\* C23: user isolation.  No step of a like or unlike call made with caller
\* identity u on product p changes whether any other user is in p's likedBy.
UserIsolation ==
    [][\A s \in DOMAIN slots :
         CallStep(s) =>
            \A v \in Users \ {slots[s].user} :
                (v \in Members(store'[slots[s].pid])) = (v \in Members(store[slots[s].pid]))]_vars

\* C23 witness: a user who had liked a product has unliked it and the other
\* user, who likes it too, is still in likedBy.
UnlikeBesideOtherMember ==
    /\ response.op = "unlike"
    /\ response.body.status = 200
    /\ succeeded[<<"like", response.pid, response.user>>] > 0
    /\ response.user \notin Members(store[response.pid])
    /\ Members(store[response.pid]) # {}

\* the step is the write of some like / unlike call
LikeWriteStep == \E s \in DOMAIN slots : WriteStep(s, "like") \/ WriteStep(s, "unlike")

\* C24: exclusive mutation.  A step that is not the write of a like or unlike
\* call (a step of a product update, of changePoints, of a delete, a read)
\* leaves likeCount and likedBy of every product that exists before and after
\* it as they are.
ExclusiveMutation ==
    [][~LikeWriteStep =>
          \A p \in Products :
              (store[p].exists /\ store'[p].exists) =>
                  LikeState(store'[p]) = LikeState(store[p])]_vars

\* ------------------------------------------------------ effects of a call
\* C25: clamped decrement.  The write of an unlike call that found the user
\* in likedBy leaves the user out of likedBy and the counter at
\* max(0, previous counter - 1); from a counter of 0 the result is 0.
ClampedDecrement ==
    [][\A s \in DOMAIN slots :
         (WriteStep(s, "unlike") /\ slots[s].wasMember) =>
            LET p == slots[s].pid IN
            /\ slots[s].user \notin Members(store'[p])
            /\ LikeCount(store'[p]) = Max(0, LikeCount(store[p]) - 1)]_vars

\* The same for the transactional revision alone.
TxClampedDecrement ==
    [][revision = "transactional" =>
         \A s \in DOMAIN slots :
            (WriteStep(s, "unlike") /\ slots[s].wasMember) =>
               LET p == slots[s].pid IN
               /\ slots[s].user \notin Members(store'[p])
               /\ LikeCount(store'[p]) = Max(0, LikeCount(store[p]) - 1)]_vars

\* C26: effect of a new like.  The write of a like call for a user who is not
\* in likedBy of the (existing) product adds exactly that user, once, and
\* raises the counter by exactly one; the call is then answered, the product
\* still existing, with success, isLikedByUser true and the stored counter.
NewLikeEffect ==
    [][\A s \in DOMAIN slots :
         LET p == slots[s].pid
             u == slots[s].user
         IN  /\ (WriteStep(s, "like") /\ ~Includes(store[p], u)) =>
                   /\ Members(store'[p]) = Members(store[p]) \cup {u}
                   /\ Occurrences(store'[p], u) = 1
                   /\ LikeCount(store'[p]) = LikeCount(store[p]) + 1
             /\ (AnswerStep(s, "like") /\ store[p].exists) =>
                   /\ response'.body.status = 200
                   /\ response'.body.isLikedByUser
                   /\ response'.body.likeCount = LikeCount(store[p])]_vars

\* C26 witness: the second user's like of a product has been answered with
\* success; the counter is 2 and both users are in likedBy.
SecondUserLikeAnswered ==
    /\ response.op = "like"
    /\ response.body.status = 200
    /\ response.body.likeCount = 2
    /\ Cardinality(Members(store[response.pid])) = 2

\* C27: no-op unlike.  The write step of an unlike call for a user who is not
\* in likedBy changes nothing: the users in likedBy, the counter, and the
\* order of the products by updatedAt (the key of the liked listing) are as
\* before.
NoOpUnlikeUntouched ==
    [][\A s \in DOMAIN slots :
         (WriteStep(s, "unlike") /\ ~Includes(store[slots[s].pid], slots[s].user)) =>
            /\ LikeState(store'[slots[s].pid]) = LikeState(store[slots[s].pid])
            /\ recency' = recency]_vars

\* The same for the transactional revision alone.
TxNoOpUnlikeUntouched ==
    [][revision = "transactional" =>
         \A s \in DOMAIN slots :
            (WriteStep(s, "unlike") /\ ~Includes(store[slots[s].pid], slots[s].user)) =>
               /\ LikeState(store'[slots[s].pid]) = LikeState(store[slots[s].pid])
               /\ recency' = recency]_vars

\* the next step of the like / unlike call in slot s
LikeCallNext(s) ==
    \/ AddLikeGet(s) \/ AddLikeUpdate(s)
    \/ RemoveLikeGet(s) \/ RemoveLikeUpdate(s)
    \/ addLikeTxGet(s) \/ addLikeTxCommit(s)
    \/ removeLikeTxGet(s) \/ removeLikeTxCommit(s)
    \/ getByIdAndRespond(s)

\* seq without p
Without(seq, p) == SelectSeq(seq, LAMBDA q : q # p)

\* C28: cross-product independence.  A step of a like or unlike call on
\* product p leaves the record of every other product, and the order of the
\* other products by updatedAt, as they are; a transaction is made to run
\* again only by a step of another request on the same product; and a call
\* in flight can always take its next step, whatever other requests are doing.
CrossProductIndependence ==
    /\ [][\A s \in DOMAIN slots :
            /\ CallStep(s) =>
                  /\ \A q \in DOMAIN store \ {slots[s].pid} : store'[q] = store[q]
                  /\ Without(recency', slots[s].pid) = Without(recency, slots[s].pid)
            /\ (~slots[s].dirty /\ slots'[s].dirty) =>
                  \E t \in DOMAIN slots \ {s} :
                      /\ slots[t].pid = slots[s].pid
                      /\ slots'[t].pc # slots[t].pc]_vars
    /\ [](\A s \in DOMAIN slots :
            (slots[s].op \in {"like", "unlike"} /\ slots[s].pc # "idle")
               => ENABLED LikeCallNext(s))

\* C28 witness: two transactions on different products, in flight together,
\* have both committed at their first attempt.
TwoProductsCommittedTogether ==
    /\ revision = "transactional"
    /\ \E s, t \in DOMAIN slots :
          /\ slots[s].pid # slots[t].pid
          /\ slots[s].pc = "getById" /\ slots[t].pc = "getById"
          /\ slots[s].attempts = 1 /\ slots[t].attempts = 1
          /\ Wrote(slots[s]) /\ Wrote(slots[t])

\* C29: no duplicate members.  In every reachable state each user id occurs at
\* most once in the likedBy array of a product, whatever like / unlike calls
\* have run and however they overlapped.
NoDuplicateMembers ==
    \A p \in DOMAIN store :
        Len(store[p].likedBy) = Cardinality(Range(store[p].likedBy))

\* C29 witness: two likes of one product by the same user have both been
\* answered with success, and the user is in likedBy once.
SameUserLikedTwice ==
    \E c \in DOMAIN succeeded :
        /\ c[1] = "like"
        /\ succeeded[c] = 2
        /\ Occurrences(store[c[2]], c[3]) = 1

\* C30: recency update.  In the transactional revision every write of a like
\* or unlike call that changes who is in likedBy makes the product the most
\* recently updated one, so that right after the write the liked listing of
\* every user who likes the product, whatever its limit, starts with it.
RecencyUpdate ==
    [][\A s \in DOMAIN slots :
         LET p == slots[s].pid IN
         (/\ revision = "transactional"
          /\ WriteStep(s, "like") \/ WriteStep(s, "unlike")
          /\ Members(store'[p]) # Members(store[p])) =>
             /\ recency'[1] = p
             /\ \A v \in Members(store'[p]), l \in {NoParam} \cup (1..MaxLimit) :
                   (LikedQueryPage(v, l, FALSE, {}))'[1] = p]_vars

\* C30 witness: the other user has liked the product the viewer liked first,
\* and the viewer's listing, asked for after that, starts with this product.
OldestLikeListedFirst ==
    /\ revision = "transactional"
    /\ NoEdits
    /\ Members(store["p1"]) = {Viewer, OtherUser}
    /\ log # <<>>
    /\ log[Len(log)].cursor = "none"
    /\ log[Len(log)].page # <<>>
    /\ log[Len(log)].page[1] = "p1"

\* ------------------------------------------------------- stateless paging
\* the page of u's liked products for limit l and cursor c, computed from a
\* store st and its updatedAt order rec and from nothing else
PageOf(st, rec, u, l, c) ==
    LET matching == SelectSeq(rec, LAMBDA q : Includes(st[q], u))
        found == c \in DOMAIN st /\ st[c].exists
        rest == IF found
                THEN SelectSeq(matching, LAMBDA q : Pos(rec, q) > Pos(rec, c))
                ELSE matching
    IN  Take(rest, ParseLimit(l))

\* the cursor document the listing in slot s has read is where it was read
CursorReadCurrent(s) ==
    LET sl == slots[s] IN
      /\ sl.hasCursor = StartDocFound(store[sl.cursor])
      /\ sl.older = IF sl.hasCursor THEN After(recency, sl.cursor) ELSE {}

\* C31: stateless paging.  In the transactional revision the page a liked
\* listing is answered with is a function of the product store at that moment
\* and of the caller, the limit and the cursor of the request alone (the store
\* not having moved the cursor document between the two reads of the call):
\* it is the same whatever pages were served before.
StatelessPaging ==
    [][(/\ revision = "transactional"
        /\ response'.op = "liked"
        /\ response'.body.status = 200
        /\ \A s \in DOMAIN slots :
              (slots[s].pc = "likedQuery" /\ slots'[s].pc = "idle")
                 => CursorReadCurrent(s))
          => response'.body.page = PageOf(store, recency, response'.user,
                                          response'.limit, response'.cursor)]_vars

\* C31 witness: a page asked for with a cursor lists, from the store as it is
\* now, a product that an earlier page of the same session has listed.
RepeatedProductServed ==
    /\ revision = "transactional"
    /\ ListingAnswered
    /\ response.cursor # "none"
    /\ Len(log) >= 2
    /\ Range(log[Len(log)].page) \cap Range(log[1].page) # {}
    /\ response.body.page = PageOf(store, recency, response.user,
                                   response.limit, response.cursor)

\* ------------------------------------------------------- legacy records
\* Records written before the like feature carry no likedBy, and some no
\* likes either; no migration has been run over them.
InitLegacy ==
    /\ revision \in Revisions
    /\ store \in {[p \in Products |-> IF p = "p1" THEN LegacyDoc ELSE d2] :
                    d2 \in {LegacyDoc, FreshDoc}}
    /\ recency = SelectSeq(DocIdOrder, LAMBDA p : p \in DOMAIN store)
    /\ slots = [s \in Slots |-> IdleSlot]
    /\ response = NoResponse
    /\ issued = EmptyBag
    /\ succeeded = EmptyBag
    /\ started = 0
    /\ log = <<>>

SpecLegacy == InitLegacy /\ [][Next]_vars

\* C32: legacy records.  A like by u written to a record that has neither
\* likes nor likedBy leaves it with likeCount 1 and likedBy = [u]; an unlike
\* written to such a record leaves it with likeCount 0 and nobody in likedBy;
\* no read of such a record ends the call with an error, and the call is
\* answered with status 200 and the counter of the record.
LegacyRecords ==
    [][\A s \in DOMAIN slots :
         LET p == slots[s].pid
             u == slots[s].user
         IN  /\ (WriteStep(s, "like") /\ store[p] = LegacyDoc)
                   => /\ LikeCount(store'[p]) = 1
                      /\ store'[p].hasLikedBy
                      /\ store'[p].likedBy = <<u>>
             /\ (WriteStep(s, "unlike") /\ store[p] = LegacyDoc)
                   => /\ LikeCount(store'[p]) = 0
                      /\ Members(store'[p]) = {}
             /\ (FirstReadStep(s) /\ store[p] = LegacyDoc)
                   => response'.body.status = 0
             /\ ((AnswerStep(s, "like") \/ AnswerStep(s, "unlike")) /\ store[p].exists)
                   => /\ response'.body.status = 200
                      /\ response'.body.likeCount = LikeCount(store[p])]_vars

\* C32 witness: the first like of a record that had neither field has been
\* answered with likeCount 1.
LegacyRecordLiked ==
    /\ response.op = "like"
    /\ response.pid = "p1"
    /\ response.body.status = 200
    /\ response.body.likeCount = 1
    /\ BagSize(issued) = 1
    /\ store["p1"].likedBy = <<response.user>>

\* ------------------------------------------------------- product creation
\* The catalogue starts empty; sellers create their products and users like
\* them.  POST /api/products passes req.body on to ProductService.createProduct
\* (the swagger schema and CreateProductData both list an optional likes).

\* product = { ...data, likes: data.likes || 0, createdAt, updatedAt }
CreatedDoc(b) == [exists |-> TRUE, hasLikes |-> TRUE,
                  likes |-> IF b.hasLikes THEN b.likes ELSE 0,
                  hasLikedBy |-> FALSE, likedBy |-> <<>>]

\* createProduct up to validateReferences: 400 when the category or the
\* charity of the body does not exist.
createProduct(s, u, b, refs) ==
    /\ CanStart(s)
    /\ started' = started + 1
    /\ IF ~refs THEN Reply(s, NewCall("create", "p1", u, "idle"), ErrorResp(400))
       ELSE Goto(s, [NewCall("create", "p1", u, "createWrite") EXCEPT !.body = b])
    /\ UNCHANGED <<log, revision, store, recency, issued, succeeded>>

\* ProductRepository.create: collection.add stores the product under a new
\* document id; the controller answers 201 with the product.
createWrite(s, p) ==
    /\ slots[s].pc = "createWrite"
    /\ ~store[p].exists
    /\ Owner(p) = slots[s].user
    /\ store' = [store EXCEPT ![p] = CreatedDoc(slots[s].body)]
    /\ recency' = Touch(recency, p)
    /\ Reply(s, [slots[s] EXCEPT !.pid = p],
             [NoResp EXCEPT !.status = 201, !.likeCount = CreatedDoc(slots[s].body).likes])
    /\ UNCHANGED <<log, revision, issued, succeeded, started>>

InitCreation ==
    /\ revision \in Revisions
    /\ store = [p \in Products |-> NoDoc]
    /\ recency = <<>>
    /\ slots = [s \in Slots |-> IdleSlot]
    /\ response = NoResponse
    /\ issued = EmptyBag
    /\ succeeded = EmptyBag
    /\ started = 0
    /\ log = <<>>

NextCreation ==
    \/ \E s \in Slots, u \in Users, b \in LikesBodies, refs \in BOOLEAN :
          createProduct(s, u, b, refs)
    \/ \E s \in Slots, p \in Products : createWrite(s, p)
    \/ \E s \in Slots, p \in Products, u \in Users : likeProduct(s, p, u)
    \/ \E s \in Slots, p \in Products, u \in Users : unlikeProduct(s, p, u)
    \/ \E s \in Slots : AddLikeGet(s)
    \/ \E s \in Slots : AddLikeUpdate(s)
    \/ \E s \in Slots : RemoveLikeGet(s)
    \/ \E s \in Slots : RemoveLikeUpdate(s)
    \/ \E s \in Slots : addLikeTxGet(s)
    \/ \E s \in Slots : addLikeTxCommit(s)
    \/ \E s \in Slots : removeLikeTxGet(s)
    \/ \E s \in Slots : removeLikeTxCommit(s)
    \/ \E s \in Slots : getByIdAndRespond(s)

SpecCreation == InitCreation /\ [][NextCreation]_vars

\* a product record comes into being
CreatedStep(p) == ~store[p].exists /\ store'[p].exists

\* C33: creation state.  Whatever the creation request contains, the record
\* of a product that has just been created has nobody in likedBy and a
\* likeCount of 0.
CreationState ==
    [][\A p \in DOMAIN store :
         CreatedStep(p) => /\ Members(store'[p]) = {}
                           /\ LikeCount(store'[p]) = 0]_vars

\* The same for creation requests whose body has no likes above 0.
CreationStateWithoutLikes ==
    [][\A p \in DOMAIN store, s \in DOMAIN slots :
         (CreatedStep(p) /\ slots[s].pc = "createWrite" /\ slots'[s].pc = "idle"
            /\ CreatedDoc(slots[s].body).likes = 0)
           => /\ Members(store'[p]) = {}
              /\ LikeCount(store'[p]) = 0]_vars

\* likedBy is empty in every record that has just been created.
CreationLikedByEmpty ==
    [][\A p \in DOMAIN store : CreatedStep(p) => Members(store'[p]) = {}]_vars

\* ------------------------------------------------------- response and state
\* C34: response agrees with one state.  In the transactional revision the
\* body of a successful like response describes the record it has been read
\* from: the caller is in likedBy there, likeCount is its counter and
\* isLikedByUser is true; the body of a successful unlike response describes
\* a record without the caller, with isLikedByUser false; other calls on the
\* product may be in flight.
ResponseAgreesWithState ==
    [][\A s \in DOMAIN slots :
         LET p == slots[s].pid
             u == slots[s].user
         IN  /\ (revision = "transactional" /\ AnswerStep(s, "like")
                    /\ response'.body.status = 200)
                   => /\ response'.body.isLikedByUser
                      /\ response'.body.likeCount = LikeCount(store[p])
                      /\ Includes(store[p], u)
             /\ (revision = "transactional" /\ AnswerStep(s, "unlike")
                    /\ response'.body.status = 200)
                   => /\ ~response'.body.isLikedByUser
                      /\ response'.body.likeCount = LikeCount(store[p])
                      /\ ~Includes(store[p], u)]_vars

\* A weaker reading: some record with the caller in likedBy has the answered
\* counter.  The counter of the transactional revision equals the number of
\* members under like and unlike traffic, so such a record has likes >= 1.
LikeResponseDescribesSomeState ==
    (revision = "transactional" /\ response.op = "like" /\ response.body.status = 200)
       => response.body.likeCount >= 1

\* ------------------------------------------------------- not found
\* the transaction of the call sl, now at its closing read, has added the
\* caller to likedBy or removed the caller from it
CommittedMembershipChange(sl) ==
    \/ sl.op = "like" /\ ~sl.wasMember
    \/ sl.op = "unlike" /\ sl.wasMember

\* C35: not found implies nothing was committed.  In the transactional
\* revision a like or unlike call whose transaction has committed a membership
\* change is never answered 404, even when the product is deleted while the
\* call is in flight.
NotFoundCommittedNothing ==
    [][\A s \in DOMAIN slots :
         (/\ revision = "transactional"
          /\ slots[s].op \in {"like", "unlike"}
          /\ slots[s].pc = "getById"
          /\ slots'[s].pc = "idle"
          /\ response'.body.status = 404)
           => ~CommittedMembershipChange(slots[s])]_vars

\* A call answered 404 by the existence check of its transaction has
\* committed nothing.
NotFoundAtFirstRead ==
    [][\A s \in DOMAIN slots :
         (/\ revision = "transactional"
          /\ slots[s].op \in {"like", "unlike"}
          /\ slots[s].pc \in {"txGet", "txCommit"}
          /\ slots'[s].pc = "idle"
          /\ response'.body.status = 404)
           => store' = store /\ recency' = recency]_vars

\* ------------------------------------------------------- round trip
\* One request at a time, over fresh and legacy records; log holds the calls
\* sent so far, each with the record of its product as the call found it.
InitRoundTrip ==
    /\ revision \in Revisions
    /\ store \in {[p \in Products |-> IF p = "p1" THEN d1 ELSE FreshDoc] :
                    d1 \in {FreshDoc, LegacyDoc}}
    /\ recency = SelectSeq(DocIdOrder, LAMBDA p : p \in DOMAIN store)
    /\ slots = [s \in SerialSlots |-> IdleSlot]
    /\ response = NoResponse
    /\ issued = EmptyBag
    /\ succeeded = EmptyBag
    /\ started = 0
    /\ log = <<>>

RoundTripCall(s, o, p, u) ==
    /\ Quiescent
    /\ Len(log) < MaxSerialCalls
    /\ EnterLikeHandler(s, o, p, u)
    /\ log' = Append(log, [op |-> o, pid |-> p, user |-> u, before |-> store[p]])

NextRoundTrip ==
    \/ \E s \in SerialSlots, c \in Calls : RoundTripCall(s, c[1], c[2], c[3])
    \/ \E s \in SerialSlots : AddLikeGet(s)
    \/ \E s \in SerialSlots : AddLikeUpdate(s)
    \/ \E s \in SerialSlots : RemoveLikeGet(s)
    \/ \E s \in SerialSlots : RemoveLikeUpdate(s)
    \/ \E s \in SerialSlots : addLikeTxGet(s)
    \/ \E s \in SerialSlots : addLikeTxCommit(s)
    \/ \E s \in SerialSlots : removeLikeTxGet(s)
    \/ \E s \in SerialSlots : removeLikeTxCommit(s)
    \/ \E s \in SerialSlots : getByIdAndRespond(s)

SpecRoundTrip == InitRoundTrip /\ [][NextRoundTrip]_vars

\* the last two calls on p are a like by u that found u outside likedBy and
\* the counter equal to the number of members, and then an unlike by u
RoundTripOn(p, u) ==
    LET on == {k \in DOMAIN log : log[k].pid = p} IN
      /\ Cardinality(on) >= 2
      /\ LET j == CHOOSE k \in on : \A m \in on : m <= k
             i == CHOOSE k \in on \ {j} : \A m \in on \ {j} : m <= k
         IN  /\ log[i].op = "like" /\ log[i].user = u
             /\ log[j].op = "unlike" /\ log[j].user = u
             /\ ~Includes(log[i].before, u)
             /\ LikeCount(log[i].before) = Cardinality(Members(log[i].before))

\* the record of p as the like of the round trip found it
BeforeRoundTrip(p) ==
    LET on == {k \in DOMAIN log : log[k].pid = p}
        j == CHOOSE k \in on : \A m \in on : m <= k
        i == CHOOSE k \in on \ {j} : \A m \in on \ {j} : m <= k
    IN  log[i].before

\* C36: like / unlike round trip.  When likeCount equals the number of
\* members and u is no member of p, like(p, u) followed by unlike(p, u), with
\* no other call on p in between, leaves p with the likedBy and the likeCount
\* it had before the like.
LikeUnlikeRoundTrip ==
    \A p \in DOMAIN store, u \in Users :
        (Quiescent /\ RoundTripOn(p, u))
           => /\ LikeState(store[p]) = LikeState(BeforeRoundTrip(p))
              /\ store[p].likedBy = BeforeRoundTrip(p).likedBy

\* C36 witness: a round trip by one user on a product that another user
\* likes has been completed.
RoundTripBesideOtherMember ==
    \E p \in DOMAIN store, u \in Users :
        /\ Quiescent
        /\ RoundTripOn(p, u)
        /\ Members(BeforeRoundTrip(p)) # {}
        /\ response.op = "unlike" /\ response.body.status = 200

\* ------------------------------------------------------- product views
\* The catalogue listing over records in any state likes, unlikes and product
\* updates can leave them in: a counter, and a likedBy that is absent or holds
\* some users once each.
MemberLists ==
    {l \in UNION {[1..n -> Users] : n \in 0..NumUsers} :
        \A i, j \in DOMAIN l : i # j => l[i] # l[j]}

ViewDocs ==
    {FreshDoc, LegacyDoc} \cup
    {[exists |-> TRUE, hasLikes |-> TRUE, likes |-> n,
      hasLikedBy |-> TRUE, likedBy |-> l] : n \in 0..MaxBodyLikes, l \in MemberLists}

\* one element of the body of a listing: what ProductView says about the
\* record, and, when the body keeps the likedBy key, the array stored under it
ListedView(doc, u) ==
    LET r == ProductView(doc, u) IN
      [likes |-> <<doc.hasLikes, doc.likes>>,
       likeCount |-> r.likeCount,
       isLikedByUser |-> r.isLikedByUser,
       likedBy |-> IF r.likedByKey THEN <<TRUE, doc.likedBy>> ELSE <<FALSE, <<>>>>]

\* getAllProducts: productRepo.getAll(), then the view of every product
getAllProducts(s, u) ==
    /\ CanStart(s)
    /\ started' = started + 1
    /\ LET ids == SelectSeq(DocIdOrder, LAMBDA p : p \in DOMAIN store /\ store[p].exists)
           views == [i \in DOMAIN ids |-> [id |-> ids[i], view |-> ListedView(store[ids[i]], u)]]
       IN  Reply(s, NewCall("all", "p1", u, "idle"),
                 [NoResp EXCEPT !.status = 200, !.page = views,
                                !.likedByKey = \E i \in DOMAIN views : views[i].view.likedBy[1]])
    /\ UNCHANGED <<log, revision, store, recency, issued, succeeded>>

InitViews ==
    /\ revision \in Revisions
    /\ store \in [Products -> ViewDocs]
    /\ recency = SelectSeq(DocIdOrder, LAMBDA p : p \in DOMAIN store)
    /\ slots = [s \in Slots |-> IdleSlot]
    /\ response = NoResponse
    /\ issued = EmptyBag
    /\ succeeded = EmptyBag
    /\ started = 0
    /\ log = <<>>

NextViews == \E s \in Slots, u \in Users \cup {NoUser} : getAllProducts(s, u)

SpecViews == InitViews /\ [][NextViews]_vars

\* two records agree on every field, and on whether v is in likedBy; they may
\* differ in which other users are in likedBy
AgreeExceptOthers(d, e, v) ==
    /\ d.hasLikes = e.hasLikes /\ d.likes = e.likes
    /\ d.hasLikedBy = e.hasLikedBy
    /\ Includes(d, v) = Includes(e, v)

\* a catalogue listing has just been answered
CatalogueAnswered == response.op = "all" /\ response.body.status = 200

\* C37: membership non-interference.  For one viewer, two records that agree
\* on every field except which other users are in likedBy are listed with the
\* same view: the view depends on likedBy only through the viewer's own
\* membership.
MembershipNonInterference ==
    CatalogueAnswered =>
        \A i, j \in DOMAIN response.body.page :
            AgreeExceptOthers(store[response.body.page[i].id],
                              store[response.body.page[j].id], response.user)
               => response.body.page[i].view = response.body.page[j].view

\* The same for the transactional revision alone.
TxMembershipNonInterference == revision = "transactional" => MembershipNonInterference

\* two records that differ in who else likes them have been listed for a
\* viewer who likes both
OtherLikersListed ==
    /\ CatalogueAnswered
    /\ response.user # NoUser
    /\ Includes(store["p1"], response.user) /\ Includes(store["p2"], response.user)
    /\ AgreeExceptOthers(store["p1"], store["p2"], response.user)
    /\ Members(store["p1"]) # Members(store["p2"])

====
